---- MODULE Spec2Model ----
(***************************************************************************)
(* Model of app.py: a Streamlit page that looks a chemical up on PubChem,  *)
(* caches the result in the SQLite table "chemicals" and converts moles to *)
(* a mass.  One script run (page load, search click, compute click) is one *)
(* action.                                                                 *)
(*                                                                         *)
(* Representation.  Text is a sequence of Unicode code points.  Numbers    *)
(* are exact rationals [num, den] in lowest terms: the inputs used here    *)
(* stay far from any rounding boundary, so binary floating point gives the *)
(* same four printed decimals.  A JSON or SQL value is a record            *)
(* [t, num, den, s, f, a] whose tag t says which fields matter.            *)
(***************************************************************************)
EXTENDS Integers, Sequences, FiniteSets, TLC

\* ------------------------------------------------------------------ bounds
\* Successful cache writes followed in one behaviour, per specification.
MaxWrites == 2
MaxLookupWrites == 1
MaxCacheWrites == 4

\* ------------------------------------------------------------- arithmetic
Abs(x) == IF x < 0 THEN -x ELSE x

RECURSIVE GCD(_, _)
GCD(a, b) == IF b = 0 THEN a ELSE GCD(b, a % b)

\* The rational n/d (d # 0) in lowest terms with a positive denominator.
Rat(n, d) ==
    LET g == GCD(Abs(n), Abs(d))
        sgn == IF d < 0 THEN -1 ELSE 1
    IN  [num |-> sgn * (n \div g), den |-> sgn * (d \div g)]

RatMul(x, y) == Rat(x.num * y.num, x.den * y.den)

\* Python float division: a zero divisor raises ZeroDivisionError.
RatDiv(x, y) ==
    IF y.num = 0 THEN [ok |-> FALSE, val |-> Rat(0, 1)]
    ELSE [ok |-> TRUE, val |-> Rat(x.num * y.den, x.den * y.num)]

\* Variant: x >= 0.
RatGe0(x) == x.num >= 0

RatGt0(x) == x.num > 0

\* ------------------------------------------------------------------- text
\* Code points used below.
ChMinus == 45
ChPlus == 43
ChDot == 46
ChZero == 48
ChNine == 57

\* First and last code point of the CJK Unified Ideographs block.
CjkFirst == 19968
CjkLast == 40959

IsDigit(c) == c >= ChZero /\ c <= ChNine

RECURSIVE DigitsValue(_)
\* Value of a sequence of decimal digits (0 for the empty sequence).
DigitsValue(s) ==
    IF s = <<>> THEN 0
    ELSE 10 * DigitsValue(SubSeq(s, 1, Len(s) - 1)) + (s[Len(s)] - ChZero)

RECURSIVE Pow10(_)
Pow10(k) == IF k = 0 THEN 1 ELSE 10 * Pow10(k - 1)

RECURSIVE DigitsOf(_)
\* Decimal digits of a natural number, as text.
DigitsOf(n) ==
    IF n < 10 THEN <<ChZero + n>>
    ELSE Append(DigitsOf(n \div 10), ChZero + (n % 10))

\* Python float(str) for plain decimal literals: optional sign, digits with
\* at most one point and at least one digit.  Any other text raises
\* ValueError.  (Exponents, inf/nan, underscores and surrounding blanks are
\* not among the texts the model feeds it.)
ParseFloat(s) ==
    LET signed == Len(s) > 0 /\ s[1] \in {ChMinus, ChPlus}
        body == IF signed THEN SubSeq(s, 2, Len(s)) ELSE s
        dots == {i \in 1..Len(body) : body[i] = ChDot}
        dot == IF dots = {} THEN Len(body) + 1 ELSE CHOOSE i \in dots : TRUE
        ip == SubSeq(body, 1, dot - 1)
        fp == SubSeq(body, dot + 1, Len(body))
        wellFormed == /\ Cardinality(dots) <= 1
                      /\ \A i \in 1..Len(body) : i # dot => IsDigit(body[i])
                      /\ Len(ip) + Len(fp) > 0
        mag == Rat(DigitsValue(ip) * Pow10(Len(fp)) + DigitsValue(fp), Pow10(Len(fp)))
    IN  IF ~wellFormed THEN [ok |-> FALSE, val |-> Rat(0, 1)]
        ELSE [ok |-> TRUE,
              val |-> IF signed /\ s[1] = ChMinus THEN Rat(-mag.num, mag.den) ELSE mag]

\* Python f"{x:.4f}": sign, integer part, point, four decimals, rounded to
\* nearest with ties to even.
Format4f(x) ==
    LET whole == Abs(x.num) \div x.den
        scaled == (Abs(x.num) % x.den) * 10000
        q == scaled \div x.den
        r == scaled % x.den
        n == IF 2 * r > x.den \/ (2 * r = x.den /\ q % 2 = 1) THEN q + 1 ELSE q
        ip == IF n = 10000 THEN whole + 1 ELSE whole
        frac == n % 10000
        pad == [i \in 1..4 |-> ChZero + ((frac \div Pow10(4 - i)) % 10)]
    IN  (IF x.num < 0 THEN <<ChMinus>> ELSE <<>>) \o DigitsOf(ip) \o <<ChDot>> \o pad

\* ----------------------------------------------------------- JSON values
NoFields == [k \in {} |-> 0]

JNull == [t |-> "null", num |-> 0, den |-> 1, s |-> <<>>, f |-> NoFields, a |-> <<>>]
JNum(n, d) == [JNull EXCEPT !.t = "num", !.num = Rat(n, d).num, !.den = Rat(n, d).den]
JStr(txt) == [JNull EXCEPT !.t = "str", !.s = txt]
JObj(fields) == [JNull EXCEPT !.t = "obj", !.f = fields]
JArr(items) == [JNull EXCEPT !.t = "arr", !.a = items]

\* Python truthiness of a decoded JSON value.
Truthy(v) ==
    CASE v.t = "null" -> FALSE
      [] v.t = "num" -> v.num # 0
      [] v.t = "str" -> v.s # <<>>
      [] v.t = "obj" -> DOMAIN v.f # {}
      [] v.t = "arr" -> v.a # <<>>

\* v[key] for a string key: KeyError when absent, TypeError on a non-dict.
GetKey(v, key) ==
    IF v.t = "obj" /\ key \in DOMAIN v.f
    THEN [ok |-> TRUE, val |-> v.f[key]]
    ELSE [ok |-> FALSE, val |-> JNull]

\* v[0]: IndexError on an empty list, KeyError/TypeError on a non-list.
GetFirst(v) ==
    IF v.t = "arr" /\ Len(v.a) > 0
    THEN [ok |-> TRUE, val |-> v.a[1]]
    ELSE [ok |-> FALSE, val |-> JNull]

\* ------------------------------------------------------- the input domain
\* Query texts: "Fe", "fe", "Fe " (they differ in case or in a trailing
\* blank), the ideograph U+4E00 (first of the CJK block), "F" followed by
\* U+9FFF (last of the block), and U+4DFF U+A000 (the code points just
\* outside the block on either side).
Q_Fe == <<70, 101>>
Q_fe == <<102, 101>>
Q_FeSp == <<70, 101, 32>>
Q_CjkLo == <<CjkFirst>>
Q_CjkHi == <<70, CjkLast>>
Q_Out == <<CjkFirst - 1, CjkLast + 1>>

\* "iron", what the translation service answers when it answers.
T_iron == <<105, 114, 111, 110>>

\* Outcome of the external translation call: it raises, or returns text.
TrFails == [ok |-> FALSE, text |-> <<>>]
TrIron == [ok |-> TRUE, text |-> T_iron]
TranslateOutcomes == {TrFails, TrIron}

T_NA == <<78, 47, 65>>
T_C9H8O4 == <<67, 57, 72, 56, 79, 52>>
T_ClNa == <<67, 108, 78, 97>>
T_18016 == <<49, 56, 48, 46, 49, 54>>
T_acid == <<97, 99, 105, 100>>

\* Properties[0] of two well-formed answers: PubChem's usual form with the
\* weight as a decimal string, and one with a numeric weight and no
\* IUPACName.
PropsA == JObj([MolecularWeight |-> JStr(T_18016), MolecularFormula |-> JStr(T_C9H8O4),
                IUPACName |-> JStr(T_acid)])
PropsB == JObj([MolecularWeight |-> JNum(5844, 100), MolecularFormula |-> JStr(T_ClNa)])

Table(props) == JObj([PropertyTable |-> JObj([Properties |-> JArr(props)])])

Http(status, body) == [transport_ok |-> TRUE, status |-> status, json_ok |-> TRUE, body |-> body]

\* What requests.get can produce.
R_Transport == [transport_ok |-> FALSE, status |-> 0, json_ok |-> FALSE, body |-> JNull]
R_404 == Http(404, JObj([Fault |-> JStr(<<>>)]))
R_NotJson == [transport_ok |-> TRUE, status |-> 200, json_ok |-> FALSE, body |-> JNull]
R_NoTable == Http(200, JObj([Fault |-> JStr(<<>>)]))
R_NoProps == Http(200, Table(<<>>))
R_EmptyProps == Http(200, Table(<<JObj(NoFields)>>))
R_NoWeight == Http(200, Table(<<JObj([CID |-> JNum(2244, 1), MolecularFormula |-> JStr(T_C9H8O4)])>>))
R_NoFormula == Http(200, Table(<<JObj([CID |-> JNum(2244, 1), MolecularWeight |-> JStr(T_18016)])>>))
R_A == Http(200, Table(<<PropsA>>))
R_B == Http(200, Table(<<PropsB>>))

Responses == {R_Transport, R_404, R_NotJson, R_NoTable, R_NoProps, R_EmptyProps,
              R_NoWeight, R_NoFormula, R_A, R_B}

\* number_input values: moles 0, 0.01, 1 and purity 0, 50, 100 percent.
MolesInputs == {Rat(0, 1), Rat(1, 100), Rat(1, 1)}
PurityInputs == {Rat(0, 1), Rat(50, 1), Rat(100, 1)}
Units == {"g", "mg", "kg"}

\* ------------------------------------------------------------ cache store
ExpectedCols == {"query_name", "en_name", "mw", "formula", "iupac_name", "cas"}

NoTable == [exists |-> FALSE, cols |-> {}, rows |-> {}]

RowMax(rows) == IF rows = {} THEN 0 ELSE CHOOSE m \in {r.rowid : r \in rows} : \A r \in rows : r.rowid <= m

\* Variant: the table is dropped and rebuilt on every call.
init_db_AlwaysRebuild(d) == [exists |-> TRUE, cols |-> ExpectedCols, rows |-> {}]

\* SELECT cas fails when the table or the column is missing; the table is
\* then dropped.  CREATE TABLE IF NOT EXISTS makes a fresh empty table only
\* when none is left.
init_db(d) ==
    LET probeFails == ~d.exists \/ "cas" \notin d.cols
        d1 == IF probeFails THEN NoTable ELSE d
    IN  IF d1.exists THEN d1 ELSE [exists |-> TRUE, cols |-> ExpectedCols, rows |-> {}]

\* Column affinity REAL: text that reads as a number is stored as a number.
RealAffinity(v) ==
    IF v.t = "str" /\ ParseFloat(v.s).ok
    THEN JNum(ParseFloat(v.s).val.num, ParseFloat(v.s).val.den)
    ELSE v

\* sqlite3 binds None, numbers and str; any other Python object is refused.
Bindable(v) == v.t \in {"null", "num", "str"}

\* Variant: a plain INSERT that leaves the row with the same key in place.
InsertOrReplace_NoDelete(d, query, mw, formula, iupac) ==
    LET row == [rowid |-> RowMax(d.rows) + 1, query_name |-> query, en_name |-> JNull,
                mw |-> RealAffinity(mw), formula |-> formula, iupac_name |-> iupac,
                cas |-> JNull]
    IN  [d EXCEPT !.rows = d.rows \cup {row}]

\* Variant: an update in place, which keeps the rowid of the row it replaces.
InsertOrReplace_KeepRowid(d, query, mw, formula, iupac) ==
    LET old == {r \in d.rows : r.query_name = query}
        row == [rowid |-> IF old = {} THEN RowMax(d.rows) + 1 ELSE (CHOOSE r \in old : TRUE).rowid,
                query_name |-> query, en_name |-> JNull,
                mw |-> RealAffinity(mw), formula |-> formula, iupac_name |-> iupac,
                cas |-> JNull]
    IN  [d EXCEPT !.rows = (d.rows \ old) \cup {row}]

\* Variant: the last two bound parameters in the wrong order.
InsertOrReplace_SwappedColumns(d, query, mw, formula, iupac) ==
    LET row == [rowid |-> RowMax(d.rows) + 1, query_name |-> query, en_name |-> JNull,
                mw |-> RealAffinity(mw), formula |-> iupac, iupac_name |-> formula,
                cas |-> JNull]
    IN  [d EXCEPT !.rows = {r \in d.rows : r.query_name # query} \cup {row}]

\* INSERT OR REPLACE INTO chemicals (query_name, mw, formula, iupac_name):
\* the row with the same primary key is deleted, the new row gets the
\* largest rowid so far plus one, en_name and cas stay NULL.
InsertOrReplace(d, query, mw, formula, iupac) ==
    LET row == [rowid |-> RowMax(d.rows) + 1, query_name |-> query, en_name |-> JNull,
                mw |-> RealAffinity(mw), formula |-> formula, iupac_name |-> iupac,
                cas |-> JNull]
    IN  [d EXCEPT !.rows = {r \in d.rows : r.query_name # query} \cup {row}]

RECURSIVE OrderByRowidDesc(_, _)
OrderByRowidDesc(rows, limit) ==
    IF rows = {} \/ limit = 0 THEN <<>>
    ELSE LET top == CHOOSE r \in rows : r.rowid = RowMax(rows)
         IN  <<top>> \o OrderByRowidDesc(rows \ {top}, limit - 1)

HistoryLimit == 3

\* SELECT query_name, formula FROM chemicals ORDER BY rowid DESC LIMIT 3,
\* on the connection init_db returns.
get_history(d) ==
    LET fetched == OrderByRowidDesc(init_db(d).rows, HistoryLimit)
    IN  [i \in 1..Len(fetched) |-> <<fetched[i].query_name, fetched[i].formula>>]

\* ------------------------------------------------- translator and lookup
\* Variant: the two ends of the block are left out.
HasCjk_Strict(text) == \E i \in 1..Len(text) : CjkFirst < text[i] /\ text[i] < CjkLast

HasCjk(text) == \E i \in 1..Len(text) : CjkFirst <= text[i] /\ text[i] <= CjkLast

\* Returns the text to look up and whether the external service was called.
free_translate(text, tr) ==
    IF HasCjk(text)
    THEN [called |-> TRUE, result |-> IF tr.ok THEN tr.text ELSE text]
    ELSE [called |-> FALSE, result |-> text]

\* Properties[0] of the answer, or None (JNull) on a transport error, a
\* status other than 200, an undecodable body or a missing path element.
fetch_from_pubchem(identifier, resp) ==
    IF ~resp.transport_ok THEN JNull
    ELSE IF resp.status # 200 THEN JNull
    ELSE IF ~resp.json_ok THEN JNull
    ELSE LET pt == GetKey(resp.body, "PropertyTable")
             ps == GetKey(pt.val, "Properties")
             p0 == GetFirst(ps.val)
         IN  IF pt.ok /\ ps.ok /\ p0.ok THEN p0.val ELSE JNull

\* ------------------------------------------------------------ script state
VARIABLES
    db,             \* the chemicals table in chem_cache.db
    session_state,  \* st.session_state: holds "current_item" or nothing
    page,           \* what the last script run rendered
    history,        \* what get_history last returned
    loaded,         \* the page has been rendered once in this session
    writes,         \* history variable: the <<query, formula>> of every committed INSERT OR REPLACE
    last            \* history variable: the inputs of the last script run

vars == <<db, session_state, page, history, loaded, writes, last>>

NoSession == [k \in {} |-> 0]

BlankPage == [error |-> FALSE, warning |-> FALSE, card |-> FALSE, has_result |-> FALSE,
              result_val |-> <<>>, unit |-> "", final_m |-> Rat(0, 1), exception |-> ""]

NoLast == [op |-> "none", query |-> <<>>, called |-> FALSE, tr_failed |-> FALSE,
           looked_up |-> FALSE, identifier |-> <<>>, resp |-> R_Transport, wrote |-> FALSE,
           m_val |-> Rat(0, 1), p_val |-> Rat(0, 1), u_val |-> ""]

\* ---------------------------------------------------------- the handlers
\* "if search_trigger and query:" with the button pressed.  Yields the table
\* and session the block leaves, whether st.error was shown, and the name of
\* the exception that ended the run ("" when none did).
search_handler(d, ss, query, tr, resp) ==
    IF query = <<>>
    THEN [db |-> d, ss |-> ss, error |-> FALSE, exception |-> "", wrote |-> FALSE,
          called |-> FALSE, looked_up |-> FALSE, identifier |-> <<>>]
    ELSE
    LET conn == init_db(d)
        tl == free_translate(query, tr)
        en_query == tl.result
        res == fetch_from_pubchem(en_query, resp)
        mw == GetKey(res, "MolecularWeight")
        formula == GetKey(res, "MolecularFormula")
        iupac == IF GetKey(res, "IUPACName").ok THEN GetKey(res, "IUPACName").val ELSE JStr(T_NA)
        base == [db |-> conn, ss |-> ss, error |-> FALSE, exception |-> "", wrote |-> FALSE,
                 called |-> tl.called, looked_up |-> TRUE, identifier |-> en_query]
    IN  IF ~Truthy(res) THEN [base EXCEPT !.error = TRUE]
        ELSE IF res.t # "obj" THEN [base EXCEPT !.exception = "TypeError"]
        ELSE IF ~mw.ok \/ ~formula.ok THEN [base EXCEPT !.exception = "KeyError"]
        ELSE IF ~(Bindable(mw.val) /\ Bindable(formula.val) /\ Bindable(iupac))
             THEN [base EXCEPT !.exception = "InterfaceError"]
        ELSE [base EXCEPT
                !.db = InsertOrReplace(conn, query, mw.val, formula.val, iupac),
                !.wrote = TRUE,
                !.ss = [k \in {"current_item"} |->
                          [name |-> query, mw |-> mw.val, formula |-> formula.val, iupac |-> iupac]]]

\* float(item['mw']): a number as it is, a str parsed, None a TypeError.
ToFloat(v) ==
    CASE v.t = "num" -> [ok |-> TRUE, val |-> Rat(v.num, v.den), exception |-> ""]
      [] v.t = "str" -> [ok |-> ParseFloat(v.s).ok, val |-> ParseFloat(v.s).val,
                         exception |-> IF ParseFloat(v.s).ok THEN "" ELSE "ValueError"]
      [] OTHER -> [ok |-> FALSE, val |-> Rat(0, 1), exception |-> "TypeError"]

\* Variant: the purity fraction multiplies instead of dividing.
MassGrams_TimesPurity(m_val, mw, p_val) ==
    [ok |-> p_val.num # 0, val |-> RatMul(RatMul(m_val, mw), RatDiv(p_val, Rat(100, 1)).val)]

\* res_g = (m_val * float(item['mw'])) / (p_val/100)
MassGrams(m_val, mw, p_val) == RatDiv(RatMul(m_val, mw), RatDiv(p_val, Rat(100, 1)).val)

\* Variant: the two factors exchanged.
ConvertUnit_Swapped(res_g, u_val) ==
    CASE u_val = "mg" -> RatDiv(res_g, Rat(1000, 1)).val
      [] u_val = "kg" -> RatMul(res_g, Rat(1000, 1))
      [] OTHER -> res_g

\* final_m for the chosen unit; any unit other than mg and kg is grams.
ConvertUnit(res_g, u_val) ==
    CASE u_val = "mg" -> RatMul(res_g, Rat(1000, 1))
      [] u_val = "kg" -> RatDiv(res_g, Rat(1000, 1)).val
      [] OTHER -> res_g

\* "if calc_trigger:" with the button pressed, as the page it renders.
compute_handler(item, m_val, p_val, u_val) ==
    LET shown == [BlankPage EXCEPT !.card = TRUE]
        mw == ToFloat(item.mw)
        res_g == MassGrams(m_val, mw.val, p_val)
        final_m == ConvertUnit(res_g.val, u_val)
    IN  IF ~RatGt0(m_val) THEN [shown EXCEPT !.warning = TRUE]
        ELSE IF ~mw.ok THEN [shown EXCEPT !.exception = mw.exception]
        ELSE IF ~res_g.ok THEN [shown EXCEPT !.exception = "ZeroDivisionError"]
        ELSE [shown EXCEPT !.has_result = TRUE, !.final_m = final_m, !.unit = u_val,
                           !.result_val = Format4f(final_m)]

\* ------------------------------------------------------------------- Init
\* chem_cache.db before the first run: no table, or a table left by an
\* older version of the script that has no cas column.
OldCols == ExpectedCols \ {"cas"}

OldRow == [rowid |-> 1, query_name |-> Q_Fe, en_name |-> JNull, mw |-> JNum(5585, 100),
           formula |-> JStr(Q_Fe), iupac_name |-> JStr(T_iron), cas |-> JNull]

Init ==
    /\ db \in {NoTable,
               [exists |-> TRUE, cols |-> OldCols, rows |-> {}],
               [exists |-> TRUE, cols |-> OldCols, rows |-> {OldRow}]}
    /\ session_state = NoSession
    /\ page = BlankPage
    /\ history = <<>>
    /\ loaded = FALSE
    /\ writes = <<>>
    /\ last = NoLast

\* ---------------------------------------------------------------- actions
\* A browser session opens the page: the script runs with no button
\* pressed and an empty session state, and ends with get_history.
PageLoad ==
    /\ db' = init_db(db)
    /\ session_state' = NoSession
    /\ page' = BlankPage
    /\ history' = get_history(db)
    /\ loaded' = TRUE
    /\ last' = [NoLast EXCEPT !.op = "load"]
    /\ UNCHANGED writes

\* A run with the search button pressed.  An exception ends the run where
\* it is raised; otherwise the result card is drawn for the held item and
\* the run ends with get_history.  cap bounds the committed writes.
Search(query, tr, resp, cap) ==
    LET h == search_handler(db, session_state, query, tr, resp)
    IN  /\ loaded
        /\ h.wrote => Len(writes) < cap
        /\ db' = IF h.exception = "" THEN init_db(h.db) ELSE h.db
        /\ session_state' = h.ss
        /\ page' = [BlankPage EXCEPT !.error = h.error, !.exception = h.exception,
                                     !.card = (h.exception = "" /\ "current_item" \in DOMAIN h.ss)]
        /\ history' = IF h.exception = "" THEN get_history(h.db) ELSE history
        /\ writes' = IF h.wrote THEN Append(writes, <<query, h.ss["current_item"].formula>>)
                     ELSE writes
        /\ last' = [NoLast EXCEPT !.op = "search", !.query = query, !.called = h.called,
                                  !.tr_failed = (h.called /\ ~tr.ok),
                                  !.looked_up = h.looked_up, !.identifier = h.identifier,
                                  !.resp = IF h.looked_up THEN resp ELSE R_Transport,
                                  !.wrote = h.wrote]
        /\ UNCHANGED loaded

\* A run with the compute button pressed; the button exists only while an
\* item is held.
Compute(m_val, p_val, u_val) ==
    LET shown == compute_handler(session_state["current_item"], m_val, p_val, u_val)
    IN  /\ loaded
        /\ "current_item" \in DOMAIN session_state
        /\ page' = shown
        /\ db' = IF shown.exception = "" THEN init_db(db) ELSE db
        /\ history' = IF shown.exception = "" THEN get_history(db) ELSE history
        /\ last' = [NoLast EXCEPT !.op = "compute", !.m_val = m_val, !.p_val = p_val,
                                  !.u_val = u_val]
        /\ UNCHANGED <<session_state, loaded, writes>>

\* ---------------------------------------------------------- specifications
\* The calculator over all its inputs, with two query texts, two good
\* answers and a 404.
Next ==
    \/ PageLoad
    \/ \E query \in {<<>>, Q_Fe, Q_fe}, resp \in {R_404, R_A, R_B} :
          Search(query, TrFails, resp, MaxWrites)
    \/ \E m_val \in MolesInputs, p_val \in PurityInputs, u_val \in Units :
          Compute(m_val, p_val, u_val)

Spec == Init /\ [][Next]_vars

\* The translator and the lookup client over every kind of answer.
NextLookup ==
    \/ PageLoad
    \/ \E query \in {<<>>, Q_Out, Q_CjkLo, Q_CjkHi}, tr \in TranslateOutcomes, resp \in Responses :
          Search(query, tr, resp, MaxLookupWrites)
    \/ Compute(Rat(1, 1), Rat(100, 1), "g")

SpecLookup == Init /\ [][NextLookup]_vars

\* The cache over enough distinct keys to overflow the recent list.
NextCache ==
    \/ PageLoad
    \/ \E query \in {Q_Fe, Q_fe, Q_FeSp, Q_CjkLo}, resp \in {R_404, R_A} :
          Search(query, TrIron, resp, MaxCacheWrites)
    \/ Compute(Rat(1, 1), Rat(100, 1), "g")

SpecCache == Init /\ [][NextCache]_vars

\* ----------------------------------------------------------------- claims
Held == "current_item" \in DOMAIN session_state
Item == session_state["current_item"]

SearchRan == last.op = "search" /\ last.looked_up
ComputeRan == last.op = "compute"

\* The answer is a 200 whose body decodes and carries, in
\* PropertyTable.Properties[0], both MolecularWeight and MolecularFormula.
GoodAnswer(resp) ==
    /\ resp.transport_ok /\ resp.status = 200 /\ resp.json_ok
    /\ resp.body.t = "obj" /\ "PropertyTable" \in DOMAIN resp.body.f
    /\ LET pt == resp.body.f["PropertyTable"]
       IN  /\ pt.t = "obj" /\ "Properties" \in DOMAIN pt.f
           /\ pt.f["Properties"].t = "arr" /\ Len(pt.f["Properties"].a) > 0
           /\ LET p0 == pt.f["Properties"].a[1]
              IN  p0.t = "obj" /\ {"MolecularWeight", "MolecularFormula"} \subseteq DOMAIN p0.f

\* C1: a search whose lookup fails (transport error, status other than 200,
\* wrong shape, or Properties[0] without MolecularWeight or MolecularFormula)
\* shows the "not matched" error, writes no row and raises nothing.
C1_FailedLookupShowsError ==
    (SearchRan /\ ~GoodAnswer(last.resp)) =>
        (page.error /\ ~last.wrote /\ page.exception = "")

\* C2: the table holds exactly one row per query text ever written, texts
\* compared exactly: a repeated write replaces, a text that differs in case
\* or in blanks gets its own row.
C2_OneRowPerQuery ==
    loaded =>
        /\ \A r1, r2 \in db.rows : r1.query_name = r2.query_name => r1 = r2
        /\ {r.query_name : r \in db.rows} = {writes[i][1] : i \in 1..Len(writes)}
        /\ Cardinality(db.rows) = Cardinality({writes[i][1] : i \in 1..Len(writes)})

C2_Witness ==
    /\ Len(writes) > Cardinality(db.rows)
    /\ {Q_Fe, Q_fe, Q_FeSp} \subseteq {r.query_name : r \in db.rows}

RECURSIVE NewestFirst(_, _)
\* The writes from the newest back, each query text at its newest write only.
NewestFirst(w, seen) ==
    IF w = <<>> THEN <<>>
    ELSE LET e == w[Len(w)]
             rest == SubSeq(w, 1, Len(w) - 1)
         IN  IF e[1] \in seen THEN NewestFirst(rest, seen)
             ELSE <<e>> \o NewestFirst(rest, seen \cup {e[1]})

Min(a, b) == IF a < b THEN a ELSE b

\* C3: get_history returns the min(3, distinct texts written) most recently
\* written rows as <<query_name, formula>>, newest write first, so its first
\* pair is the latest successful lookup, also after an overwrite.
C3_HistoryIsRecentWrites ==
    /\ Len(history) = Min(3, Cardinality({writes[i][1] : i \in 1..Len(writes)}))
    /\ history = SubSeq(NewestFirst(writes, {}), 1, Len(history))
    /\ writes # <<>> => history[1] = writes[Len(writes)]

C3_Witness ==
    /\ Len(writes) = 4 /\ Len(history) = 3
    /\ writes[4][1] = writes[1][1]
    /\ writes[2][1] # writes[1][1] /\ writes[3][1] # writes[1][1]
    /\ history[1] = writes[4]

\* C4: a compute run with moles <= 0 shows the warning and no number; a
\* number is shown only by a compute run with moles > 0.
C4_NoResultWithoutMoles ==
    /\ (ComputeRan /\ last.m_val.num <= 0) =>
          (page.warning /\ ~page.has_result /\ page.result_val = <<>> /\ page.exception = "")
    /\ page.has_result => (ComputeRan /\ last.m_val.num > 0 /\ ~page.warning)

C4_Witness == ComputeRan /\ last.m_val = Rat(0, 1) /\ page.warning

\* The molecular weight of the held item as a number.
HeldWeight == IF Item.mw.t = "num" THEN Rat(Item.mw.num, Item.mw.den) ELSE ParseFloat(Item.mw.s).val

Shows(m, mwValue, p, u) ==
    /\ ComputeRan /\ Held
    /\ last.m_val = m /\ last.p_val = p /\ last.u_val = u
    /\ HeldWeight = mwValue

Txt_180_1600 == <<49, 56, 48, 46, 49, 54, 48, 48>>
Txt_1_1688 == <<49, 46, 49, 54, 56, 56>>
Txt_180160_0000 == <<49, 56, 48, 49, 54, 48, 46, 48, 48, 48, 48>>
Txt_0_1816 == <<48, 46, 49, 56, 49, 54>>
Txt_0_1802 == <<48, 46, 49, 56, 48, 50>>

\* C5: with moles > 0 and purity # 0 the mass in grams times purity/100
\* equals moles times the held molecular weight, and it is printed with four
\* decimals: 1 mol of 180.16 at 100 % is 180.1600, 0.01 mol of 58.44 at 50 %
\* is 1.1688.
C5_MassFormula ==
    /\ (ComputeRan /\ last.m_val.num > 0 /\ last.p_val.num # 0) => page.has_result
    /\ (page.has_result /\ last.u_val = "g") =>
          RatMul(page.final_m, Rat(last.p_val.num, last.p_val.den * 100))
              = RatMul(last.m_val, HeldWeight)
    /\ page.has_result =>
          /\ Len(page.result_val) >= 6
          /\ page.result_val[Len(page.result_val) - 4] = 46
          /\ \A i \in (Len(page.result_val) - 3)..Len(page.result_val) :
                page.result_val[i] \in 48..57
    /\ Shows(Rat(1, 1), Rat(18016, 100), Rat(100, 1), "g") => page.result_val = Txt_180_1600
    /\ Shows(Rat(1, 100), Rat(5844, 100), Rat(50, 1), "g") => page.result_val = Txt_1_1688

C5_Witness ==
    /\ Shows(Rat(1, 100), Rat(5844, 100), Rat(50, 1), "g")
    /\ page.result_val = Txt_1_1688

\* moles x weight / (purity / 100), from the inputs of the last compute run.
GramsOfLast ==
    Rat(last.m_val.num * HeldWeight.num * 100 * last.p_val.den,
        last.m_val.den * HeldWeight.den * last.p_val.num)

UnitFactorsHold ==
    page.has_result =>
        /\ last.u_val = "mg" => page.final_m = Rat(GramsOfLast.num * 1000, GramsOfLast.den)
        /\ last.u_val = "kg" => page.final_m = Rat(GramsOfLast.num, GramsOfLast.den * 1000)
        /\ last.u_val = "g" => page.final_m = GramsOfLast

\* C6 as stated: milligram is grams x 1000, kilogram grams / 1000, gram
\* unchanged, and 1 mol of 180.16 at 100 % prints 180160.0000 in milligram
\* and 0.1816 in kilogram.
C6_AsStated ==
    /\ UnitFactorsHold
    /\ Shows(Rat(1, 1), Rat(18016, 100), Rat(100, 1), "mg") => page.result_val = Txt_180160_0000
    /\ Shows(Rat(1, 1), Rat(18016, 100), Rat(100, 1), "kg") => page.result_val = Txt_0_1816

\* C6 amended: the same unit factors, and 1 mol of 180.16 at 100 % prints
\* 180160.0000 in milligram and 0.1802 in kilogram (0.18016 to four
\* decimals).
C6_UnitConversion ==
    /\ UnitFactorsHold
    /\ Shows(Rat(1, 1), Rat(18016, 100), Rat(100, 1), "mg") => page.result_val = Txt_180160_0000
    /\ Shows(Rat(1, 1), Rat(18016, 100), Rat(100, 1), "kg") => page.result_val = Txt_0_1802

C6_Witness ==
    /\ Shows(Rat(1, 1), Rat(18016, 100), Rat(100, 1), "kg")
    /\ page.result_val = Txt_0_1802

IsCjkText(text) == \E i \in 1..Len(text) : text[i] \in 19968..40959

\* C7: the translation service is called exactly for texts with a code
\* point in U+4E00..U+9FFF; the text looked up is the query itself when it
\* has none or when the call fails, the translation otherwise; and every
\* search with a non-empty query reaches the lookup.
C7_TranslateBestEffort ==
    (last.op = "search" /\ last.query # <<>>) =>
        /\ last.looked_up
        /\ last.called = IsCjkText(last.query)
        /\ ~IsCjkText(last.query) => last.identifier = last.query
        /\ last.tr_failed => last.identifier = last.query
        /\ (last.called /\ ~last.tr_failed) => last.identifier = T_iron

C7_Witness ==
    /\ last.op = "search" /\ last.query = Q_CjkLo
    /\ last.called /\ last.tr_failed /\ last.identifier = Q_CjkLo

\* C8: no search run and no compute run ends in an uncaught exception.
C8_NoUncaughtException == page.exception = ""

\* C9: init_db turns a missing table, or one without the cas column, into
\* an empty table with the full schema; a table with the cas column keeps
\* every row through every script run, except that a search replaces the
\* row of its own query text, so every query text written by a successful
\* lookup still has its row.
C9_SchemaRepair ==
    /\ [](\A i \in 1..Len(writes) : \E r \in db.rows : r.query_name = writes[i][1])
    /\ [][ /\ (~db.exists \/ "cas" \notin db.cols) =>
                 (db'.exists /\ db'.cols = ExpectedCols /\ db'.rows = {})
           /\ (db.exists /\ "cas" \in db.cols) =>
                 /\ db'.exists /\ db'.cols = db.cols
                 /\ \A r \in db.rows :
                       \/ r \in db'.rows
                       \/ /\ last'.op = "search" /\ last'.wrote /\ last'.query = r.query_name
                          /\ \E r2 \in db'.rows : r2.query_name = r.query_name
         ]_vars

C9_Witness == last.op = "load" /\ Cardinality(db.rows) >= 3

\* The same value in the table (after column affinity) and in the session.
SameValue(stored, held) ==
    \/ stored = held
    \/ /\ held.t = "str" /\ stored.t = "num"
       /\ ParseFloat(held.s).ok /\ ParseFloat(held.s).val = Rat(stored.num, stored.den)

HeldMatchesCache ==
    Held => \E r \in db.rows :
                /\ r.query_name = Item.name
                /\ SameValue(r.mw, Item.mw)
                /\ r.formula = Item.formula
                /\ r.iupac_name = Item.iupac

\* C10: an item is held only through a successful lookup; a failed search,
\* a search with an empty query and a compute run change neither the held
\* item nor the table; and the cache row of the held item's name carries its
\* molecular weight, formula and IUPAC name.
C10_HeldItemFrame ==
    /\ []HeldMatchesCache
    /\ [][ /\ (last'.op = "compute" \/ (last'.op = "search" /\ ~last'.wrote)) =>
                 (session_state' = session_state /\ db' = db)
           /\ ("current_item" \in DOMAIN session_state' /\ session_state' # session_state) =>
                 (last'.op = "search" /\ last'.wrote /\ GoodAnswer(last'.resp)
                    /\ session_state'["current_item"].name = last'.query)
         ]_vars

C10_Witness ==
    /\ Held /\ last.op = "search" /\ page.error /\ page.card
    /\ Len(writes) = 2 /\ writes[1][1] = writes[2][1] /\ writes[1][2] # writes[2][2]

====
